---- MODULE Spec2Model ----
(***************************************************************************)
(* The product-settings dialog (ProductSettingsDialog) as a state machine. *)
(*                                                                         *)
(* React state lives in the variables settings, focusMode, actionIndex,    *)
(* editingField, editBuffer, editCursorPos and cursorVisible.  The key     *)
(* handler passed to useKeypress is a closure created by a render: the     *)
(* names it reads outside a functional updater (editingField, editBuffer,  *)
(* editCursorPos, focusMode, actionIndex, settings) are the values of the  *)
(* render that created it.  The variable r holds those captured values;    *)
(* Render refreshes it.  A functional updater (setX(prev => ...)) reads    *)
(* the current state.                                                      *)
(*                                                                         *)
(* Strings are sequences of codepoints.  A codepoint is one of             *)
(*   "l"  a letter of the basic plane (one UTF-16 unit),                   *)
(*   " "  a space (whitespace, one unit),                                  *)
(*   "E"  a codepoint outside the basic plane (two UTF-16 units),          *)
(*   "C"  a control character, and the letters of the default name.        *)
(***************************************************************************)
EXTENDS Integers, Sequences, FiniteSets, TLC

VARIABLES
  settings,        \* useState<ProductSettings>
  focusMode,       \* "settings" | "actions"
  actionIndex,     \* 0 = Apply, 1 = Cancel
  editingField,    \* "name" | "null"
  editBuffer,      \* sequence of codepoints
  editCursorPos,   \* integer
  cursorVisible,   \* BOOLEAN
  activeIndex,     \* highlighted row of the RadioButtonSelect
  r,               \* the values captured by the last render
  blinkTimer,      \* number of live setInterval timers of the blink effect
  mounted,         \* the dialog component is mounted and its handler subscribed
  isProductSettingsDialogOpen,  \* the caller's flag (useProductSettingsCommand)
  loaded,          \* the mount effect that loads the settings file has run
  dirExists,       \* the .aaagent directory exists
  file,            \* content of product-settings.json
  calls,           \* the outcomes passed to onSelect, in order
  ioLog,           \* the file-system writes performed (mkdir, write), in order
  dirty,           \* input events handled since the last render
  commandResult,   \* the action the slash command returned, not yet routed
  geminiMd,        \* GEMINI.md in the target directory: "absent", "empty", "user"
  uiItems          \* number of items init-product added with context.ui.addItem

vars == <<settings, focusMode, actionIndex, editingField, editBuffer,
          editCursorPos, cursorVisible, activeIndex, r, blinkTimer, mounted,
          isProductSettingsDialogOpen, loaded, dirExists, file, calls, ioLog,
          dirty, commandResult, geminiMd, uiItems>>

\* ---------------------------------------------------------------- bounds
\* Longest edit buffer explored (insertions beyond it are not explored).
MaxLen == 2
\* Most input events dispatched to one handler closure before a re-render.
MaxBatch == 2

\* ------------------------------------------------------------ text utils
Letter == "l"
Space == " "
Astral == "E"
Ctrl == "C"

\* String.prototype.length counts UTF-16 code units.
Units(c) == IF c = Astral THEN 2 ELSE 1

RECURSIVE JsLength(_)
JsLength(s) == IF s = <<>> THEN 0 ELSE Units(Head(s)) + JsLength(Tail(s))

cpLen(s) == Len(s)

Min(a, b) == IF a < b THEN a ELSE b
Max(a, b) == IF a > b THEN a ELSE b

\* Array.prototype.slice index normalisation: a negative index counts from
\* the end, and the result is clamped to [0, len].
SliceIndex(i, len) == IF i < 0 THEN Max(len + i, 0) ELSE Min(i, len)

\* cpSlice(str, start, end): the codepoints start .. end-1.
cpSlice3(s, start, end) ==
  LET from == SliceIndex(start, Len(s))
      to == SliceIndex(end, Len(s))
  IN IF to <= from THEN <<>> ELSE SubSeq(s, from + 1, to)

\* cpSlice(str, start): to the end of the string.
cpSlice2(s, start) == cpSlice3(s, start, Len(s))

\* stripUnsafeCharacters: control characters are removed.
RECURSIVE stripUnsafeCharacters(_)
stripUnsafeCharacters(s) ==
  IF s = <<>> THEN <<>>
  ELSE IF Head(s) = Ctrl THEN stripUnsafeCharacters(Tail(s))
  ELSE <<Head(s)>> \o stripUnsafeCharacters(Tail(s))

\* String.prototype.trim: leading and trailing whitespace removed.
RECURSIVE TrimLeft(_)
TrimLeft(s) ==
  IF s # <<>> /\ Head(s) = Space THEN TrimLeft(Tail(s)) ELSE s

RECURSIVE TrimRight(_)
TrimRight(s) ==
  IF s # <<>> /\ s[Len(s)] = Space THEN TrimRight(SubSeq(s, 1, Len(s) - 1)) ELSE s

Trim(s) == TrimRight(TrimLeft(s))

\* -------------------------------------------------------------- settings
DEFAULT_SETTINGS ==
  [name |-> <<"n", "e", "w", "-", "p", "r", "o", "j", "e", "c", "t">>,
   styleReferenceUrl |-> <<>>,
   platform |-> "Windows",
   modules |-> <<>>]

SettingKeys == {"name", "styleReferenceUrl", "platform", "modules"}

\* The text of the settings file.  kind is "absent" (no file), "malformed"
\* (not JSON) or "json"; for "json", has is the set of keys the object
\* holds and the four fields give their values (a key not in has carries
\* an unused filler).
FileText(kind, has, name, url, platform, modules) ==
  [kind |-> kind, has |-> has, name |-> name, styleReferenceUrl |-> url,
   platform |-> platform, modules |-> modules]

NoFile == FileText("absent", {}, <<>>, <<>>, "", <<>>)
MalformedFile == FileText("malformed", {}, <<>>, <<>>, "", <<>>)

\* Mutant of JsonStringify: the platform is not written.
JsonStringify_OmitsPlatform(s) ==
  FileText("json", SettingKeys \ {"platform"}, s.name, s.styleReferenceUrl,
           "", s.modules)

\* JSON.stringify(settings, null, 2): the four keys of the settings object.
JsonStringify(s) ==
  FileText("json", SettingKeys, s.name, s.styleReferenceUrl, s.platform, s.modules)

\* The files the dialog may find at mount.
FileContents ==
  { NoFile,
    MalformedFile,
    FileText("json", {"platform"}, <<>>, <<>>, "Linux", <<>>),
    FileText("json", {"name", "modules"}, <<Letter>>, <<>>, "", <<"sqlite">>) }

\* Mutant of MergeLoaded: the loaded object replaces the defaults.
MergeLoaded_ReplacesDefaults(loadedObj) ==
  [k \in SettingKeys |-> loadedObj[k]]

\* { ...DEFAULT_SETTINGS, ...loaded }
MergeLoaded(loadedObj) ==
  [k \in SettingKeys |->
     IF k \in loadedObj.has THEN loadedObj[k] ELSE DEFAULT_SETTINGS[k]]

\* The values a render captures for the handlers it creates.
Snapshot ==
  [settings |-> settings, focusMode |-> focusMode, actionIndex |-> actionIndex,
   editingField |-> editingField, editBuffer |-> editBuffer,
   editCursorPos |-> editCursorPos, activeIndex |-> activeIndex]

\* ------------------------------------------------------------ input events
ControlNames ==
  {"backspace", "delete", "escape", "return", "left", "right", "home", "end",
   "tab", "up", "down"}

NamedKey(n) == [name |-> n, sequence |-> <<Ctrl>>, paste |-> FALSE]

CharKeys ==
  { [name |-> "l", sequence |-> <<Letter>>, paste |-> FALSE],
    [name |-> "h", sequence |-> <<Letter>>, paste |-> FALSE],
    [name |-> "space", sequence |-> <<Space>>, paste |-> FALSE],
    [name |-> "", sequence |-> <<Astral>>, paste |-> FALSE] }

PastePayloads == { <<Astral>>, <<Letter, Ctrl, Space>>, <<Ctrl>> }

\* The key names a paste event may carry besides none.
PasteNames == {"", "return", "escape"}

PasteKeys ==
  { [name |-> n, sequence |-> p, paste |-> TRUE] :
      n \in PasteNames, p \in PastePayloads }

Keys == { NamedKey(n) : n \in ControlNames } \cup CharKeys \cup PasteKeys

\* ------------------------------------------------------- the slash command
NoAction == [type |-> "none", dialog |-> ""]

\* productSettingsCommand.name
productSettingsCommandName == "product-settings"

\* Mutant of productSettingsCommandAction: arguments select another dialog.
productSettingsCommandAction_ArgsSelect(context, args) ==
  [type |-> "dialog",
   dialog |-> IF args = <<>> THEN "product-settings" ELSE "settings"]

\* productSettingsCommand.action(_context, _args)
productSettingsCommandAction(context, args) ==
  [type |-> "dialog", dialog |-> "product-settings"]

\* ------------------------------------------------------------------- Init
Init ==
  /\ settings = DEFAULT_SETTINGS
  /\ focusMode = "settings"
  /\ actionIndex = 0
  /\ editingField = "null"
  /\ editBuffer = <<>>
  /\ editCursorPos = 0
  /\ cursorVisible = TRUE
  /\ activeIndex = 0
  /\ r = [settings |-> DEFAULT_SETTINGS, focusMode |-> "settings",
          actionIndex |-> 0, editingField |-> "null", editBuffer |-> <<>>,
          editCursorPos |-> 0, activeIndex |-> 0]
  /\ blinkTimer = 0
  /\ mounted = TRUE
  /\ isProductSettingsDialogOpen = TRUE
  /\ loaded = FALSE
  /\ file \in FileContents
  /\ dirExists \in BOOLEAN
  /\ (file.kind # "absent" => dirExists)
  /\ calls = <<>>
  /\ ioLog = <<>>
  /\ dirty = 0
  /\ commandResult = NoAction
  /\ geminiMd = "absent"
  /\ uiItems = 0

\* ------------------------------------------------------- variable groups
editVars == <<editingField, editBuffer, editCursorPos>>
focusVars == <<focusMode, actionIndex>>
fsVars == <<dirExists, file, ioLog>>
callerVars == <<calls, isProductSettingsDialogOpen>>
renderVars == <<r, blinkTimer, mounted, cursorVisible, loaded>>
commandVars == <<commandResult, geminiMd, uiItems>>

\* ---------------------------------------------------------------- outcomes
Undefined == [kind |-> "undefined", settings |-> DEFAULT_SETTINGS]
Applied(s) == [kind |-> "settings", settings |-> s]

\* onSelect(result): the caller records the outcome and closes the dialog
\* (closeProductSettingsDialog); the dialog unmounts at the next render.
onSelect(result) ==
  /\ calls' = Append(calls, result)
  /\ isProductSettingsDialogOpen' = FALSE

\* ------------------------------------------------------------ load at mount
\* The mount effect: read and parse the settings file, merge over defaults;
\* any failure (unreadable, malformed) is caught and logged.
\* Mutant of LoadEffectOn: a file that cannot be read or parsed closes the
\* dialog with the no-result sentinel.
LoadEffectOn_FailureCloses(readOk) ==
  /\ mounted
  /\ ~loaded
  /\ loaded' = TRUE
  /\ IF file.kind # "absent" /\ readOk /\ file.kind = "json"
     THEN settings' = MergeLoaded(file) /\ UNCHANGED callerVars
     ELSE IF file.kind = "absent"
     THEN settings' = settings /\ UNCHANGED callerVars
     ELSE settings' = settings /\ onSelect(Undefined)
  /\ UNCHANGED <<focusVars, editVars, cursorVisible, activeIndex, r, blinkTimer,
                 mounted, fsVars, dirty, commandVars>>

\* readOk is the file system's answer to readFileSync.
LoadEffectOn(readOk) ==
  /\ mounted
  /\ ~loaded
  /\ loaded' = TRUE
  /\ IF file.kind # "absent" /\ readOk /\ file.kind = "json"
     THEN settings' = MergeLoaded(file)
     ELSE settings' = settings
  /\ UNCHANGED <<focusVars, editVars, cursorVisible, activeIndex, r, blinkTimer,
                 mounted, fsVars, callerVars, dirty, commandVars>>

LoadEffect == \E readOk \in BOOLEAN : LoadEffectOn(readOk)

\* ------------------------------------------------------------- edit session
startEditing(field, initial) ==
  /\ editingField' = field
  /\ editBuffer' = initial
  /\ editCursorPos' = cpLen(initial)

\* Closing the session: setEditingField(null); setEditBuffer(''); setEditCursorPos(0).
CloseSession ==
  /\ editingField' = "null"
  /\ editBuffer' = <<>>
  /\ editCursorPos' = 0

\* commitEdit reads the captured editingField and editBuffer.
commitEdit ==
  IF r.editingField = "null"
  THEN UNCHANGED <<editVars, settings>>
  ELSE LET trimmed == Trim(r.editBuffer)
       IN IF trimmed = <<>>
          THEN CloseSession /\ UNCHANGED settings
          ELSE /\ (IF r.editingField = "name"
                   THEN settings' = [settings EXCEPT !.name = trimmed]
                   ELSE UNCHANGED settings)
               /\ CloseSession

\* -------------------------------------------------------------------- save
\* Mutant of saveSettings: the settings are reported even when the
\* directory could not be created or the write failed.
saveSettings_ReportsDespiteFailure(mkdirOk, writeOk) ==
  LET needDir == ~dirExists
      dirDone == dirExists \/ mkdirOk
      wrote == dirDone /\ writeOk
  IN /\ dirExists' = dirDone
     /\ file' = IF wrote THEN JsonStringify(r.settings) ELSE file
     /\ ioLog' = ioLog
                 \o (IF needDir /\ mkdirOk THEN <<"mkdir">> ELSE <<>>)
                 \o (IF wrote THEN <<"write">> ELSE <<>>)
     /\ onSelect(Applied(r.settings))

\* saveSettings writes the captured settings; mkdirOk and writeOk are the
\* file system's answers.
saveSettings(mkdirOk, writeOk) ==
  LET needDir == ~dirExists
      dirDone == dirExists \/ mkdirOk
      wrote == dirDone /\ writeOk
  IN /\ dirExists' = dirDone
     /\ file' = IF wrote THEN JsonStringify(r.settings) ELSE file
     /\ ioLog' = ioLog
                 \o (IF needDir /\ mkdirOk THEN <<"mkdir">> ELSE <<>>)
                 \o (IF wrote THEN <<"write">> ELSE <<>>)
     /\ IF wrote THEN onSelect(Applied(r.settings)) ELSE onSelect(Undefined)

\* ------------------------------------------------ key handler, editing mode
\* Bulk insert of the sanitized payload at the captured cursor position.
PasteBranch(key) ==
  LET pasted == stripUnsafeCharacters(key.sequence)
  IN IF pasted # <<>>
     THEN /\ editBuffer' = cpSlice3(editBuffer, 0, r.editCursorPos) \o pasted
                           \o cpSlice2(editBuffer, r.editCursorPos)
          /\ editCursorPos' = editCursorPos + cpLen(pasted)
          /\ UNCHANGED <<editingField, settings>>
     ELSE UNCHANGED <<editVars, settings>>

BackspaceBranch ==
  /\ editBuffer' = cpSlice3(editBuffer, 0, r.editCursorPos - 1)
                   \o cpSlice2(editBuffer, r.editCursorPos)
  /\ editCursorPos' = editCursorPos - 1
  /\ UNCHANGED <<editingField, settings>>

DeleteBranch ==
  /\ editBuffer' = cpSlice3(editBuffer, 0, r.editCursorPos)
                   \o cpSlice2(editBuffer, r.editCursorPos + 1)
  /\ UNCHANGED <<editingField, editCursorPos, settings>>

\* Mutant of EscapeEditBranch: escape commits the buffer like return.
EscapeEditBranch_Commits == commitEdit

EscapeEditBranch == CloseSession /\ UNCHANGED settings

LeftBranch ==
  /\ editCursorPos' = Max(0, editCursorPos - 1)
  /\ UNCHANGED <<editingField, editBuffer, settings>>

RightBranch ==
  /\ editCursorPos' = Min(cpLen(r.editBuffer), editCursorPos + 1)
  /\ UNCHANGED <<editingField, editBuffer, settings>>

HomeBranch ==
  /\ editCursorPos' = 0
  /\ UNCHANGED <<editingField, editBuffer, settings>>

EndBranch ==
  /\ editCursorPos' = cpLen(r.editBuffer)
  /\ UNCHANGED <<editingField, editBuffer, settings>>

\* Any other key: its sanitized sequence is inserted when ch.length === 1.
InsertCharBranch(key) ==
  LET ch == stripUnsafeCharacters(key.sequence)
  IN IF JsLength(ch) = 1
     THEN /\ editBuffer' = cpSlice3(editBuffer, 0, r.editCursorPos) \o ch
                           \o cpSlice2(editBuffer, r.editCursorPos)
          /\ editCursorPos' = editCursorPos + 1
          /\ UNCHANGED <<editingField, settings>>
     ELSE UNCHANGED <<editVars, settings>>

EditingBranch(key) ==
  /\ IF key.paste /\ key.sequence # <<>> THEN PasteBranch(key)
     ELSE IF key.name = "backspace" /\ r.editCursorPos > 0 THEN BackspaceBranch
     ELSE IF key.name = "delete" /\ r.editCursorPos < cpLen(r.editBuffer)
       THEN DeleteBranch
     ELSE IF key.name = "escape" THEN EscapeEditBranch
     ELSE IF key.name = "return" THEN commitEdit
     ELSE IF key.name = "left" THEN LeftBranch
     ELSE IF key.name = "right" THEN RightBranch
     ELSE IF key.name = "home" THEN HomeBranch
     ELSE IF key.name = "end" THEN EndBranch
     ELSE InsertCharBranch(key)
  /\ UNCHANGED <<focusVars, activeIndex, fsVars, callerVars>>

\* --------------------------------------------- key handler, navigating mode
TabBranch ==
  /\ focusMode' = (IF focusMode = "settings" THEN "actions" ELSE "settings")
  /\ UNCHANGED <<actionIndex, fsVars, callerVars>>

\* Mutant of EscapeNavBranch: escape saves like Apply before closing.
EscapeNavBranch_Saves ==
  /\ saveSettings(TRUE, TRUE)
  /\ UNCHANGED focusVars

EscapeNavBranch ==
  /\ onSelect(Undefined)
  /\ UNCHANGED <<focusVars, fsVars>>

\* Mutant of ActionsBranch: left and right step the index, wrapping.
ActionsBranch_Steps(key) ==
  IF key.name \in {"left", "h", "right", "l"}
  THEN actionIndex' = 1 - actionIndex /\ UNCHANGED <<focusMode, fsVars, callerVars>>
  ELSE IF key.name = "return"
  THEN IF r.actionIndex = 0
       THEN /\ \E mkdirOk \in BOOLEAN, writeOk \in BOOLEAN :
                 saveSettings(mkdirOk, writeOk)
            /\ UNCHANGED focusVars
       ELSE onSelect(Undefined) /\ UNCHANGED <<focusVars, fsVars>>
  ELSE UNCHANGED <<focusVars, fsVars, callerVars>>

ActionsBranch(key) ==
  IF key.name \in {"left", "h"}
  THEN actionIndex' = 0 /\ UNCHANGED <<focusMode, fsVars, callerVars>>
  ELSE IF key.name \in {"right", "l"}
  THEN actionIndex' = 1 /\ UNCHANGED <<focusMode, fsVars, callerVars>>
  ELSE IF key.name = "return"
  THEN IF r.actionIndex = 0
       THEN /\ \E mkdirOk \in BOOLEAN, writeOk \in BOOLEAN :
                 saveSettings(mkdirOk, writeOk)
            /\ UNCHANGED focusVars
       ELSE onSelect(Undefined) /\ UNCHANGED <<focusVars, fsVars>>
  ELSE UNCHANGED <<focusVars, fsVars, callerVars>>

NavigatingBranch(key) ==
  /\ IF key.name = "tab" THEN TabBranch
     ELSE IF key.name = "escape" THEN EscapeNavBranch
     ELSE IF r.focusMode = "actions" THEN ActionsBranch(key)
     ELSE UNCHANGED <<focusVars, fsVars, callerVars>>
  /\ UNCHANGED <<editVars, settings, activeIndex>>

\* ------------------------------------------------------- the settings list
Rows == <<"name", "platform-windows", "platform-linux", "module-sqlite",
          "module-i18n">>

Includes(seq, x) == \E i \in 1..Len(seq) : seq[i] = x

\* Array.prototype.filter(m => m !== x)
RECURSIVE FilterOut(_, _)
FilterOut(seq, x) ==
  IF seq = <<>> THEN <<>>
  ELSE IF Head(seq) = x THEN FilterOut(Tail(seq), x)
  ELSE <<Head(seq)>> \o FilterOut(Tail(seq), x)

\* Mutant of ToggleModule: only the first occurrence is removed.
ToggleModule_RemovesFirst(modules, m) ==
  IF Includes(modules, m)
  THEN LET i == CHOOSE j \in 1..Len(modules) :
                  modules[j] = m /\ \A k \in 1..(j - 1) : modules[k] # m
       IN SubSeq(modules, 1, i - 1) \o SubSeq(modules, i + 1, Len(modules))
  ELSE Append(modules, m)

ToggleModule(modules, m) ==
  IF Includes(modules, m) THEN FilterOut(modules, m) ELSE Append(modules, m)

handleSettingSelect(value) ==
  IF r.editingField # "null" THEN UNCHANGED <<editVars, settings>>
  ELSE IF value = "name"
  THEN startEditing("name", r.settings.name) /\ UNCHANGED settings
  ELSE IF value = "platform-windows"
  THEN settings' = [settings EXCEPT !.platform = "Windows"] /\ UNCHANGED editVars
  ELSE IF value = "platform-linux"
  THEN settings' = [settings EXCEPT !.platform = "Linux"] /\ UNCHANGED editVars
  ELSE IF value = "module-sqlite"
  THEN /\ settings' = [settings EXCEPT !.modules = ToggleModule(@, "sqlite")]
       /\ UNCHANGED editVars
  ELSE IF value = "module-i18n"
  THEN /\ settings' = [settings EXCEPT !.modules = ToggleModule(@, "i18n")]
       /\ UNCHANGED editVars
  ELSE UNCHANGED <<editVars, settings>>

\* The list is focused when the render that created its handler had the
\* field list in focus and no session open (isFocused).
ListFocused == r.focusMode = "settings" /\ r.editingField = "null"

\* RadioButtonSelect: up and down move the highlight (wrapping), return
\* selects the highlighted row.
ListBranch(key) ==
  /\ IF key.name = "up"
     THEN /\ activeIndex' = (IF r.activeIndex > 0 THEN r.activeIndex - 1
                             ELSE Len(Rows) - 1)
          /\ UNCHANGED <<editVars, settings>>
     ELSE IF key.name = "down"
     THEN /\ activeIndex' = (IF r.activeIndex < Len(Rows) - 1
                             THEN r.activeIndex + 1 ELSE 0)
          /\ UNCHANGED <<editVars, settings>>
     ELSE /\ handleSettingSelect(Rows[r.activeIndex + 1])
          /\ UNCHANGED activeIndex
  /\ UNCHANGED <<focusVars, fsVars, callerVars>>

\* ---------------------------------------------------------------- actions
\* The model's bound on buffer length: an event that would grow the buffer
\* past MaxLen, or open a session on a longer name, is not explored.
WithinBound(key) ==
  IF r.editingField # "null"
  THEN cpLen(editBuffer) + cpLen(stripUnsafeCharacters(key.sequence)) <= MaxLen
  ELSE cpLen(r.settings.name) <= MaxLen \/ ~ListFocused \/ key.name # "return"
       \/ Rows[r.activeIndex + 1] # "name"

\* One input event, delivered to the handlers the last render subscribed.
Keypress(key) ==
  /\ mounted
  /\ loaded
  /\ dirty < MaxBatch
  /\ WithinBound(key)
  /\ dirty' = dirty + 1
  /\ IF r.editingField # "null" THEN EditingBranch(key)
     ELSE IF ListFocused /\ key.name \in {"up", "down", "return"}
       THEN ListBranch(key)
     ELSE NavigatingBranch(key)
  /\ UNCHANGED <<renderVars, commandVars>>

\* The blink effect, run by a render whose editingField differs from the
\* previous render's: the old interval is cleared, then either the cursor
\* is shown (no session) or a new interval is started.
\* The intervals the cleanup of the blink effect of the last render clears:
\* that effect started one exactly when it saw a session.
Cleared == IF r.editingField # "null" THEN 1 ELSE 0

BlinkEffect ==
  IF editingField = r.editingField
  THEN UNCHANGED <<blinkTimer, cursorVisible>>
  ELSE IF editingField = "null"
  THEN blinkTimer' = blinkTimer - Cleared /\ cursorVisible' = TRUE
  ELSE blinkTimer' = blinkTimer - Cleared + 1 /\ UNCHANGED cursorVisible

\* A render: the component function runs with the current state, new
\* handlers capture it, effects run.  When the caller has closed the
\* dialog the component unmounts instead and its cleanups run.
Render ==
  /\ mounted
  /\ loaded
  /\ IF isProductSettingsDialogOpen
     THEN /\ r' = Snapshot
          /\ BlinkEffect
          /\ UNCHANGED mounted
     ELSE /\ mounted' = FALSE
          /\ blinkTimer' = blinkTimer - Cleared
          /\ UNCHANGED <<r, cursorVisible>>
  /\ dirty' = 0
  /\ UNCHANGED <<settings, focusVars, editVars, activeIndex, loaded, fsVars,
                 callerVars, commandVars>>

\* A tick of a live interval: setCursorVisible(v => !v).
Tick ==
  /\ blinkTimer > 0
  /\ cursorVisible' = ~cursorVisible
  /\ UNCHANGED <<settings, focusVars, editVars, activeIndex, r, blinkTimer,
                 mounted, loaded, fsVars, callerVars, dirty, commandVars>>

Next ==
  \/ LoadEffect
  \/ \E key \in Keys : Keypress(key)
  \/ Render
  \/ Tick

\* Input events are dispatched to whatever handler is subscribed: several
\* events of one input chunk reach the same closure before React renders.
Spec == Init /\ [][Next]_vars

\* The handlers hold the current state: a render has followed the last
\* state change and the caller has not closed the dialog.
Fresh == r = Snapshot /\ isProductSettingsDialogOpen

\* The schedule in which a render separates any two input events.
NextFresh ==
  \/ LoadEffect
  \/ \E key \in Keys : Fresh /\ Keypress(key)
  \/ Render
  \/ Tick

SpecFresh == Init /\ [][NextFresh]_vars

\* ------------------------------------------------- the dialog's life cycle
\* The settings files a project may hold before the dialog is first opened:
\* those of FileContents, a platform the dialog does not offer, and a
\* module list with a repeated entry.
StoredFiles ==
  FileContents \cup
  { FileText("json", {"platform"}, <<>>, <<>>, "Mac", <<>>),
    FileText("json", {"modules"}, <<>>, <<>>, "", <<"sqlite", "i18n", "sqlite">>) }

\* The values of the first render of a dialog instance (the useState
\* initial values).
InitialRender ==
  [settings |-> DEFAULT_SETTINGS, focusMode |-> "settings", actionIndex |-> 0,
   editingField |-> "null", editBuffer |-> <<>>, editCursorPos |-> 0,
   activeIndex |-> 0]

\* Before the command is run: useProductSettingsCommand holds false and no
\* dialog is mounted.
InitClosed ==
  /\ settings = DEFAULT_SETTINGS
  /\ focusMode = "settings"
  /\ actionIndex = 0
  /\ editingField = "null"
  /\ editBuffer = <<>>
  /\ editCursorPos = 0
  /\ cursorVisible = TRUE
  /\ activeIndex = 0
  /\ r = InitialRender
  /\ blinkTimer = 0
  /\ mounted = FALSE
  /\ isProductSettingsDialogOpen = FALSE
  /\ loaded = FALSE
  /\ file \in StoredFiles
  /\ dirExists \in BOOLEAN
  /\ (file.kind # "absent" => dirExists)
  /\ calls = <<>>
  /\ ioLog = <<>>
  /\ dirty = 0
  /\ commandResult = NoAction
  /\ geminiMd = "absent"
  /\ uiItems = 0

\* The command context: services.config is present or null.
Contexts == { [config |-> c] : c \in BOOLEAN }

\* The argument strings given after the command name.
ArgStrings == { <<>>, <<Letter>>, <<Letter, Space>> }

\* The user submits /product-settings: the command's action runs and its
\* result goes to the command router.  No command is accepted while the
\* dialog is open or an earlier result is still to be routed.
SlashCommand(context, args) ==
  /\ ~mounted
  /\ ~isProductSettingsDialogOpen
  /\ commandResult = NoAction
  /\ commandResult' = productSettingsCommandAction(context, args)
  /\ UNCHANGED <<settings, focusVars, editVars, activeIndex, renderVars,
                 fsVars, callerVars, dirty, geminiMd, uiItems>>

\* The router handles a dialog action for 'product-settings' with
\* openProductSettingsDialog; the render that follows mounts a new dialog
\* instance, whose state is the useState initial values.
OpenDialog ==
  /\ ~mounted
  /\ commandResult.type = "dialog"
  /\ commandResult.dialog = productSettingsCommandName
  /\ commandResult' = NoAction
  /\ isProductSettingsDialogOpen' = TRUE
  /\ mounted' = TRUE
  /\ loaded' = FALSE
  /\ settings' = DEFAULT_SETTINGS
  /\ focusMode' = "settings"
  /\ actionIndex' = 0
  /\ editingField' = "null"
  /\ editBuffer' = <<>>
  /\ editCursorPos' = 0
  /\ cursorVisible' = TRUE
  /\ activeIndex' = 0
  /\ r' = InitialRender
  /\ calls' = <<>>
  /\ ioLog' = <<>>
  /\ dirty' = 0
  /\ UNCHANGED <<blinkTimer, dirExists, file, geminiMd, uiItems>>

\* The keys of list and action-row navigation.
NavigationKeys ==
  { NamedKey(n) : n \in {"up", "down", "return", "tab", "escape", "left", "right"} }

NextLifecycle ==
  \/ \E context \in Contexts, args \in ArgStrings : SlashCommand(context, args)
  \/ OpenDialog
  \/ LoadEffect
  \/ \E key \in NavigationKeys : Keypress(key)
  \/ Render
  \/ Tick

\* The dialog opened by the command, closed by an outcome, opened again:
\* each instance loads the file the previous ones left.
SpecLifecycle == InitClosed /\ [][NextLifecycle]_vars

\* ------------------------------------------------- the init-product command
\* GEMINI.md before the command is first run: absent, present and empty,
\* or present with content of the user's.
GeminiMdFiles == {"absent", "empty", "user"}

ConfigError == [type |-> "message", messageType |-> "error"]
AlreadyExists == [type |-> "message", messageType |-> "info"]
SubmitPrompt == [type |-> "submit_prompt", messageType |-> ""]
\* fs.writeFileSync threw: the promise of the action rejects.
Rejected == [type |-> "rejected", messageType |-> ""]

\* Mutant of initProductCommandAction: the file is written without the
\* existsSync check.
initProductCommandAction_NoExistsCheck(context, args) ==
  /\ ~mounted
  /\ ~isProductSettingsDialogOpen
  /\ commandResult = NoAction
  /\ IF ~context.config
     THEN commandResult' = ConfigError /\ UNCHANGED <<geminiMd, uiItems>>
     ELSE \E writeOk \in BOOLEAN :
            IF writeOk
            THEN /\ geminiMd' = "empty"
                 /\ uiItems' = uiItems + 1
                 /\ commandResult' = SubmitPrompt
            ELSE commandResult' = Rejected /\ UNCHANGED <<geminiMd, uiItems>>
  /\ UNCHANGED <<settings, focusVars, editVars, activeIndex, renderVars,
                 fsVars, callerVars, dirty>>

\* initProductCommand.action(context, _args); writeOk is the file system's
\* answer to writeFileSync.
initProductCommandAction(context, args) ==
  /\ ~mounted
  /\ ~isProductSettingsDialogOpen
  /\ commandResult = NoAction
  /\ IF ~context.config
     THEN commandResult' = ConfigError /\ UNCHANGED <<geminiMd, uiItems>>
     ELSE IF geminiMd # "absent"
     THEN commandResult' = AlreadyExists /\ UNCHANGED <<geminiMd, uiItems>>
     ELSE \E writeOk \in BOOLEAN :
            IF writeOk
            THEN /\ geminiMd' = "empty"
                 /\ uiItems' = uiItems + 1
                 /\ commandResult' = SubmitPrompt
            ELSE commandResult' = Rejected /\ UNCHANGED <<geminiMd, uiItems>>
  /\ UNCHANGED <<settings, focusVars, editVars, activeIndex, renderVars,
                 fsVars, callerVars, dirty>>

\* The router shows a message, submits the prompt or reports the rejection;
\* the next command can then be entered.
RouteResult ==
  /\ commandResult.type \in {"message", "submit_prompt", "rejected"}
  /\ commandResult' = NoAction
  /\ UNCHANGED <<settings, focusVars, editVars, activeIndex, renderVars,
                 fsVars, callerVars, dirty, geminiMd, uiItems>>

\* Before any command is run, in a directory that may hold a GEMINI.md.
InitCommands ==
  /\ settings = DEFAULT_SETTINGS
  /\ focusMode = "settings"
  /\ actionIndex = 0
  /\ editingField = "null"
  /\ editBuffer = <<>>
  /\ editCursorPos = 0
  /\ cursorVisible = TRUE
  /\ activeIndex = 0
  /\ r = InitialRender
  /\ blinkTimer = 0
  /\ mounted = FALSE
  /\ isProductSettingsDialogOpen = FALSE
  /\ loaded = FALSE
  /\ file \in FileContents
  /\ dirExists \in BOOLEAN
  /\ (file.kind # "absent" => dirExists)
  /\ calls = <<>>
  /\ ioLog = <<>>
  /\ dirty = 0
  /\ commandResult = NoAction
  /\ geminiMd \in GeminiMdFiles
  /\ uiItems = 0

\* The keys that open a session, apply and cancel.
CommandKeys == { NamedKey(n) : n \in {"return", "tab", "escape"} }

NextCommands ==
  \/ \E context \in Contexts, args \in ArgStrings :
       initProductCommandAction(context, args)
  \/ RouteResult
  \/ \E context \in Contexts, args \in ArgStrings : SlashCommand(context, args)
  \/ OpenDialog
  \/ LoadEffect
  \/ \E key \in CommandKeys : Keypress(key)
  \/ Render
  \/ Tick

\* Both slash commands, in any order, any number of times.
SpecCommands == InitCommands /\ [][NextCommands]_vars

\* ------------------------------------------------------------------ claims
SessionOpen == editingField # "null"
\* The key handler dispatches on the editingField it captured: an event is
\* handled in editing mode when that is set.
EditingMode == r.editingField # "null"
CursorInBuffer == 0 <= editCursorPos /\ editCursorPos <= cpLen(editBuffer)

\* C1: over one dialog lifetime onSelect is invoked exactly once: never a
\* second time after an outcome has been reported, and the dialog is not
\* torn down without one.
C1_ReportedExactlyOnce ==
  /\ Len(calls) <= 1
  /\ (~mounted => Len(calls) = 1)

\* C2: in every reachable state 0 <= editCursorPos <= cpLen(editBuffer).
C2_CursorWithinBuffer == CursorInBuffer

CancelPath(key) ==
  /\ r.editingField = "null"
  /\ \/ key.name = "escape"
     \/ key.name = "return" /\ r.focusMode = "actions" /\ r.actionIndex = 1

ApplyPath(key) ==
  /\ r.editingField = "null"
  /\ key.name = "return"
  /\ r.focusMode = "actions"
  /\ r.actionIndex = 0

LastCall == calls[Len(calls)]

C5_WitnessFailure ==
  /\ calls = <<Undefined>>
  /\ ioLog = <<"mkdir">>
  /\ file = NoFile
  /\ ~isProductSettingsDialogOpen

InsertAt(buf, p, text) == SubSeq(buf, 1, p) \o text \o SubSeq(buf, p + 1, Len(buf))

\* C6: pasting a sanitized string of N codepoints at cursor p grows the
\* buffer by N, places the text between the former positions p-1 and p and
\* moves the cursor to p+N; a backward delete removes the codepoint before
\* the cursor and moves the cursor back by one, so N of them restore the
\* buffer and the cursor.
C6_PasteThenBackspaceRoundTrip ==
  [][/\ \A key \in PasteKeys :
          LET pasted == stripUnsafeCharacters(key.sequence)
          IN (EditingMode /\ CursorInBuffer /\ pasted # <<>> /\ Keypress(key))
               => /\ editBuffer' = InsertAt(editBuffer, editCursorPos, pasted)
                  /\ cpLen(editBuffer') = cpLen(editBuffer) + cpLen(pasted)
                  /\ editCursorPos' = editCursorPos + cpLen(pasted)
     /\ (EditingMode /\ CursorInBuffer /\ editCursorPos > 0
           /\ Keypress(NamedKey("backspace")))
          => /\ editBuffer' = SubSeq(editBuffer, 1, editCursorPos - 1)
                              \o SubSeq(editBuffer, editCursorPos + 1, Len(editBuffer))
             /\ editCursorPos' = editCursorPos - 1]_vars

\* C7: in editing mode an event that is no paste and no named control key,
\* and whose sanitized sequence is one codepoint, inserts that codepoint at
\* the cursor: buffer one codepoint longer, cursor one further.
C7_SingleCodepointInserted ==
  [][\A key \in CharKeys :
       (EditingMode /\ CursorInBuffer
          /\ cpLen(stripUnsafeCharacters(key.sequence)) = 1 /\ Keypress(key))
         => /\ editBuffer' = InsertAt(editBuffer, editCursorPos,
                                      stripUnsafeCharacters(key.sequence))
            /\ editCursorPos' = editCursorPos + 1]_vars

\* C8: for every buffer and cursor p in [0, len], right yields
\* min(p+1, len), left max(p-1, 0), home 0 and end len; buffer, session and
\* settings are unchanged.
C8_CursorMoves ==
  [][\A n \in {"left", "right", "home", "end"} :
       (EditingMode /\ CursorInBuffer /\ Keypress(NamedKey(n)))
         => /\ editCursorPos' =
                 (CASE n = "right" -> Min(editCursorPos + 1, cpLen(editBuffer))
                    [] n = "left" -> Max(editCursorPos - 1, 0)
                    [] n = "home" -> 0
                    [] n = "end" -> cpLen(editBuffer))
            /\ editBuffer' = editBuffer
            /\ editingField' = editingField
            /\ settings' = settings]_vars

C10_EditingImpliesFieldList ==
  SessionOpen => focusMode = "settings"

\* --------------------------------------------------- claims on the store
\* The load cannot use the file: there is none, it cannot be read, or its
\* text is not JSON.
LoadFails(readOk) == file.kind \in {"absent", "malformed"} \/ ~readOk

\* C11: load at mount never fails the dialog: when the settings file is
\* absent, unreadable or not parseable, the settings are the defaults,
\* onSelect is not invoked and the dialog is open in navigating mode; a
\* malformed file is handled like a missing one.
C11_LoadFailureKeepsDefaults ==
  [][\A readOk \in BOOLEAN :
       (LoadFails(readOk) /\ LoadEffectOn(readOk))
         => /\ settings' = DEFAULT_SETTINGS
            /\ calls' = <<>>
            /\ isProductSettingsDialogOpen'
            /\ mounted'
            /\ editingField' = "null"
            /\ focusMode' = "settings"]_vars

\* A dialog that found a malformed file: loaded, defaults, nothing reported.
C11_Witness ==
  /\ loaded
  /\ mounted
  /\ isProductSettingsDialogOpen
  /\ file = MalformedFile
  /\ settings = DEFAULT_SETTINGS
  /\ editingField = "null"
  /\ calls = <<>>

\* C12: the load of a present, parseable file is a shallow merge over the
\* defaults: each key holds the loaded value if the file has the key and
\* the default otherwise; modules, if present, is the loaded list.  A file
\* holding only platform=Linux yields platform=Linux and the default name
\* and modules.
C12_LoadMergesOverDefaults ==
  [][(file.kind = "json" /\ LoadEffectOn(TRUE))
       => /\ \A k \in SettingKeys :
               settings'[k] = IF k \in file.has THEN file[k]
                              ELSE DEFAULT_SETTINGS[k]
          /\ ("modules" \in file.has => settings'.modules = file.modules)
          /\ (file.has = {"platform"} /\ file.platform = "Linux")
               => /\ settings'.platform = "Linux"
                  /\ settings'.name = DEFAULT_SETTINGS.name
                  /\ settings'.modules = <<>>]_vars

\* The file holding only platform=Linux has been loaded.
C12_Witness ==
  /\ loaded
  /\ r = InitialRender
  /\ file.kind = "json"
  /\ file.has = {"platform"}
  /\ settings = [DEFAULT_SETTINGS EXCEPT !.platform = "Linux"]

\* The step wrote the settings file.
Wrote == Len(ioLog') > Len(ioLog) /\ ioLog'[Len(ioLog')] = "write"

C13_WitnessReload ==
  /\ loaded
  /\ ioLog = <<>>
  /\ file.has = SettingKeys
  /\ settings.platform = "Linux"
  /\ settings.modules = <<"i18n">>
  /\ JsonStringify(settings) = file

\* --------------------------------------------------- claims on the rows
\* return on the highlighted row of the focused list.
Activates(row) ==
  /\ ListFocused
  /\ Rows[r.activeIndex + 1] = row
  /\ Keypress(NamedKey("return"))

ModuleNames == {"sqlite", "i18n"}
ModuleRow(m) == IF m = "sqlite" THEN "module-sqlite" ELSE "module-i18n"
SetOf(seq) == { seq[i] : i \in 1..Len(seq) }

\* C14: activating a module row flips the membership of that module;
\* a second activation gives a list set-equal to the original one, for
\* every modules value including a loaded one; the other module's
\* membership, name, platform and styleReferenceUrl are unchanged and no
\* edit session is opened.
C14_ModuleToggleSetSemantics ==
  [][\A m \in ModuleNames :
       Activates(ModuleRow(m))
         => /\ Includes(settings'.modules, m) = ~Includes(settings.modules, m)
            /\ SetOf(settings'.modules) \in
                 {SetOf(settings.modules) \cup {m}, SetOf(settings.modules) \ {m}}
            /\ SetOf(ToggleModule(settings'.modules, m)) = SetOf(settings.modules)
            /\ settings'.name = settings.name
            /\ settings'.platform = settings.platform
            /\ settings'.styleReferenceUrl = settings.styleReferenceUrl
            /\ UNCHANGED editVars]_vars

\* The sqlite row was activated on a loaded list that held sqlite twice.
C14_Witness ==
  /\ loaded
  /\ "modules" \in file.has
  /\ file.modules = <<"sqlite", "i18n", "sqlite">>
  /\ settings.modules = <<"i18n">>
  /\ editingField = "null"

\* Both activations have happened: the list is set-equal to the loaded
\* one, in another order.
C14_WitnessTwice ==
  /\ loaded
  /\ "modules" \in file.has
  /\ file.modules = <<"sqlite", "i18n", "sqlite">>
  /\ settings.modules = <<"i18n", "sqlite">>

PlatformNames == {"Windows", "Linux"}
PlatformRow(p) == IF p = "Windows" THEN "platform-windows" ELSE "platform-linux"

\* C19: settings.platform is one of Windows and Linux in every reachable
\* state, also after the load of a parseable file; activating a platform
\* row sets the platform to the row's value and leaves name, modules,
\* styleReferenceUrl and the edit session unchanged.
C19_PlatformIsWindowsOrLinux ==
  [][/\ settings'.platform \in PlatformNames
     /\ \A p \in PlatformNames :
          Activates(PlatformRow(p))
            => /\ settings' = [settings EXCEPT !.platform = p]
               /\ UNCHANGED editVars]_vars

\* --------------------------------------------------- claims on the timer
\* C15: the blink timer is a scoped resource: at most one interval is
\* live, one is live only while an edit session is open and the dialog is
\* mounted, and once the session has ended or the dialog is torn down no
\* tick changes cursorVisible.
C15_BlinkTimerScoped ==
  [][/\ blinkTimer' \in {0, 1}
     /\ (blinkTimer' = 1 => mounted' /\ SessionOpen')
     /\ (Tick => mounted /\ SessionOpen)]_vars

\* ------------------------------------------------- claims on the command
\* C16: the action of the product-settings command returns the dialog
\* action {type: 'dialog', dialog: 'product-settings'} for every context
\* and every argument string, and changes neither files nor state; the
\* command's name is 'product-settings'.
C16_CommandReturnsDialogAction ==
  [][\A context \in Contexts, args \in ArgStrings :
       SlashCommand(context, args)
         => /\ commandResult' = [type |-> "dialog", dialog |-> "product-settings"]
            /\ productSettingsCommandName = "product-settings"
            /\ UNCHANGED <<dirExists, file, ioLog, settings, calls,
                           isProductSettingsDialogOpen, mounted>>]_vars

\* The command has run again after an earlier dialog saved and closed.
C16_Witness ==
  /\ commandResult = [type |-> "dialog", dialog |-> "product-settings"]
  /\ ~mounted
  /\ ~isProductSettingsDialogOpen
  /\ ioLog = <<"write">>

\* ------------------------------------------------ claims on batched input
\* An earlier event has been handled since the last render: the handler
\* holds the buffer and cursor captured before it.
Batched == dirty > 0

\* C17: editing-mode events handled before a re-render act as if applied
\* one at a time to the buffer: a typed character is inserted at the
\* then-current cursor, a backspace removes exactly the character before
\* the then-current cursor (nothing at position 0), and the cursor stays
\* within [0, len(buffer)].
C17_BatchedEventsApplySequentially ==
  [][/\ \A key \in CharKeys :
          LET ch == stripUnsafeCharacters(key.sequence)
          IN (Batched /\ EditingMode /\ SessionOpen /\ CursorInBuffer
                /\ JsLength(ch) = 1 /\ Keypress(key))
               => /\ editBuffer' = InsertAt(editBuffer, editCursorPos, ch)
                  /\ editCursorPos' = editCursorPos + 1
     /\ (Batched /\ EditingMode /\ SessionOpen /\ CursorInBuffer
           /\ Keypress(NamedKey("backspace")))
          => IF editCursorPos > 0
             THEN /\ editBuffer' = SubSeq(editBuffer, 1, editCursorPos - 1)
                                   \o SubSeq(editBuffer, editCursorPos + 1,
                                             Len(editBuffer))
                  /\ editCursorPos' = editCursorPos - 1
             ELSE UNCHANGED <<editBuffer, editCursorPos>>
     /\ (Batched /\ EditingMode /\ CursorInBuffer /\ (\E key \in Keys : Keypress(key)))
          => CursorInBuffer']_vars

\* C18: in editing mode a paste event that carries a payload, whatever
\* its payload and key name, only inserts the sanitized payload at the
\* cursor (nothing if that is empty): the session stays open, focus,
\* settings, files and the reported outcomes are unchanged.
C18_PasteShortCircuits ==
  [][\A key \in PasteKeys :
       LET pasted == stripUnsafeCharacters(key.sequence)
       IN (EditingMode /\ SessionOpen /\ CursorInBuffer /\ key.sequence # <<>>
             /\ Keypress(key))
            => /\ editBuffer' = InsertAt(editBuffer, editCursorPos, pasted)
               /\ editCursorPos' = editCursorPos + cpLen(pasted)
               /\ editingField' = editingField
               /\ UNCHANGED <<settings, focusVars, activeIndex, fsVars,
                              callerVars>>]_vars

\* The part of C18 that does not depend on where the handler believes the
\* cursor to be: a paste with a payload never commits or cancels the
\* session, moves focus, changes settings or files, or reports.
C18_PasteFrame ==
  [][\A key \in PasteKeys :
       (EditingMode /\ key.sequence # <<>> /\ Keypress(key))
         => /\ editingField' = editingField
            /\ cpLen(editBuffer') =
                 cpLen(editBuffer) + cpLen(stripUnsafeCharacters(key.sequence))
            /\ UNCHANGED <<settings, focusVars, activeIndex, fsVars,
                           callerVars>>]_vars

C21_TwoEscapesCancel ==
  [][/\ (loaded /\ calls = <<>>) => (mounted /\ isProductSettingsDialogOpen)
     /\ (calls = <<>> /\ Keypress(NamedKey("escape")))
          => IF SessionOpen
             THEN calls' = <<Undefined>> \/ (~SessionOpen' /\ calls' = <<>>)
             ELSE calls' = <<Undefined>>]_vars

\* C22: init-product never overwrites an existing GEMINI.md: with the file
\* present it returns the info message and writes nothing; without a
\* configuration it returns the error message and writes nothing; an empty
\* GEMINI.md is created and submit_prompt returned only with a
\* configuration and the file absent (and then they are, unless the write
\* throws); so an invocation after a successful one changes nothing.
C22_InitProductKeepsExistingFile ==
  [][\A context \in Contexts, args \in ArgStrings :
       initProductCommandAction(context, args)
         => /\ (geminiMd # "absent" => geminiMd' = geminiMd)
            /\ ~context.config
                 => commandResult' = [type |-> "message", messageType |-> "error"]
                    /\ UNCHANGED <<geminiMd, uiItems>>
            /\ (context.config /\ geminiMd # "absent")
                 => commandResult' = [type |-> "message", messageType |-> "info"]
                    /\ UNCHANGED <<geminiMd, uiItems>>
            /\ (geminiMd' # geminiMd \/ commandResult'.type = "submit_prompt")
                 => /\ context.config
                    /\ geminiMd = "absent"
                    /\ geminiMd' = "empty"
                    /\ commandResult'.type = "submit_prompt"
            /\ (context.config /\ geminiMd = "absent")
                 => \/ geminiMd' = "empty" /\ commandResult'.type = "submit_prompt"
                    \/ geminiMd' = "absent" /\ commandResult'.type = "rejected"
            /\ UNCHANGED <<dirExists, file, ioLog, settings, calls>>]_vars

\* The command was run again after it had created the file: the info
\* message is returned, the file is still the empty one, one item added.
C22_Witness ==
  /\ commandResult = AlreadyExists
  /\ geminiMd = "empty"
  /\ uiItems = 1

\* The command found a GEMINI.md with content: it is still there.
C22_WitnessUserFile ==
  /\ commandResult = AlreadyExists
  /\ geminiMd = "user"
  /\ uiItems = 0

====
